---- MODULE Spec2Model ----
(***************************************************************************)
(* Board-tilt maze game: maze carving (Ball.hpp, class Maze), ball         *)
(* dynamics (Ball.hpp, class Ball), pose smoothing (Smoothing/) and the    *)
(* frame loop of main.cpp.                                                 *)
(*                                                                         *)
(* Units of the fixed-point arithmetic that stands for float/double:       *)
(*   length    5 mm            (radius 0.010 m = 2, cell 0.037 m = 7)      *)
(*   time      1/3000 s        (dt in [1/500, 1/20] s = 6 .. 150)          *)
(*   velocity  0.1 m/s         (5 mm per 1/20 s)                           *)
(*   angle     5 degrees       (72 to the turn)                            *)
(*   matrix entries, gravity components, deadzone: 1/1000                  *)
(* Every division truncates toward zero (Quot).  The end-to-end scenario    *)
(* runs on lengths of 0.1 mm and velocities of 2 mm/s (Scenario..).        *)
(***************************************************************************)
EXTENDS Integers, Sequences, FiniteSets, TLC

VARIABLES
    maze,        \* the Maze object
    stack,       \* the explicit stack of Maze::generate
    pc,          \* position of the program: "generate", "generated", "play", "exit"
    ball,        \* the Ball object
    poseSmooth,  \* the PoseSmoother object
    rvec, tvec,  \* main's cv::Mat rvec, tvec (<< >> is an empty cv::Mat)
    hasPose,     \* main's bool hasPose
    last         \* the operation that ran last, with its inputs and what it computed

vars == <<maze, stack, pc, ball, poseSmooth, rvec, tvec, hasPose, last>>

\* main's pose variables and the smoother
pose == <<poseSmooth, rvec, tvec, hasPose>>

-----------------------------------------------------------------------------
(* Arithmetic helpers *)

Abs(a) == IF a < 0 THEN -a ELSE a

Quot(a, b) == IF a >= 0 THEN a \div b ELSE -((-a) \div b)

Sign(a) == IF a > 0 THEN 1 ELSE IF a < 0 THEN -1 ELSE 0

-----------------------------------------------------------------------------
(* Bounds of the model *)

\* largest grid handed to Maze::generate on its own
MaxW == 3
MaxH == 3
\* largest number of cells of a grid the ball is played on
PlayCells == 4
\* largest number of cells of a grid the frame loop runs on
LoopCells == 2
\* number of steps of the end-to-end scenario
ScenarioSteps == 60

-----------------------------------------------------------------------------
(* Program constants *)

\* main.cpp: sheet 0.297 m x 0.210 m, in 5 mm units (truncated)
SheetW == 59
SheetH == 42
\* main.cpp: cellsX, cellsY
CellsX == 8
CellsY == 6
\* main.cpp: ballR = 0.010 m, in 5 mm units
BallR == 2
\* main.cpp: dt = max(min(dt, 1/20), 1/500), in 1/3000 s
DtMin == 6
DtMax == 150
\* Ball.hpp: g = 9.81 in 0.01 m/s^2, gain = 1.0, deadzone = 0.03 in 1/1000
BallG == 981
BallGain == 1
BallDeadzone == 30
\* Ball.hpp: vel *= 0.85 and bounce = 0.4, in 1/100
FrictionPct == 85
BouncePct == 40
\* smoothing.hpp: alphaPose = 0.20; main.cpp: poseSmooth.alphaPose = 0.25, in 1/100
AlphaDefault == 20
AlphaMain == 25
\* main.cpp: if (charucoIds.total() >= 6)
MinCorners == 6
\* the sheet, the radius of the ball (main.cpp) in 0.1 mm and g (Ball.hpp) in
\* 0.0002 m/s^2, for the end-to-end scenario
ScenarioSheetW == 2970
ScenarioSheetH == 2100
ScenarioBallR == 100
ScenarioG == 49050

\* fixed-point scales (see the units above)
One == 10 * 100                     \* 1.0 for matrix entries and gravity components
AccDen == 30 * 1000 * 1000          \* (1e-5 m/s^2) * (1/3000 s) per 0.1 m/s
PosDen == 5 * 30                    \* (0.1 m/s) * (1/3000 s) per 5 mm
Turn == 8 * 9                       \* angle units in a full turn

-----------------------------------------------------------------------------
(* class Maze *)

\* struct Cell with its default member initialisers
NewCell == [wN |-> TRUE, wS |-> TRUE, wE |-> TRUE, wW |-> TRUE, visited |-> FALSE]

\* Maze::Maze(width, height, sheetWidth, sheetHeight, wallThickness)
MazeCtor(width, height, sheetWidth, sheetHeight) ==
    [w |-> width, h |-> height,
     cellW |-> Quot(sheetWidth, width),
     cellH |-> Quot(sheetHeight, height),
     grid |-> [i \in 0 .. (width * height - 1) |-> NewCell]]

\* index computed by Maze::at, with its clamping of x and y
AtIdx(m, x, y) ==
    LET x1 == IF x < 0 THEN 0 ELSE x
        x2 == IF x1 >= m.w THEN m.w - 1 ELSE x1
        y1 == IF y < 0 THEN 0 ELSE y
        y2 == IF y1 >= m.h THEN m.h - 1 ELSE y1
    IN  y2 * m.w + x2

At(m, x, y) == m.grid[AtIdx(m, x, y)]

\* const int dirs[4][2] of Maze::generate
Dirs == << <<0, 1>>, <<1, 0>>, <<0, -1>>, <<-1, 0>> >>

\* the neighbors vector built by the for loop of Maze::generate
Neighbors(m, cx, cy) ==
    LET cand == [i \in 1 .. 4 |-> <<cx + Dirs[i][1], cy + Dirs[i][2]>>]
        ok(n) == /\ n[1] >= 0 /\ n[1] < m.w /\ n[2] >= 0 /\ n[2] < m.h
                 /\ ~At(m, n[1], n[2]).visited
    IN  SelectSeq(cand, ok)

\* CarveWalls without the last branch of the chain (ny < cy)
CarveWallsNoNorth(m, cx, cy, nx, ny) ==
    LET c == AtIdx(m, cx, cy)
        n == AtIdx(m, nx, ny)
        g1 == IF nx > cx
                THEN [m.grid EXCEPT ![c].wE = FALSE, ![n].wW = FALSE]
              ELSE IF nx < cx
                THEN [m.grid EXCEPT ![c].wW = FALSE, ![n].wE = FALSE]
              ELSE IF ny > cy
                THEN [m.grid EXCEPT ![c].wS = FALSE, ![n].wN = FALSE]
              ELSE m.grid
    IN  [m EXCEPT !.grid = [g1 EXCEPT ![n].visited = TRUE]]

\* CarveWalls with the two cells of each branch exchanged
CarveWallsMirrored(m, cx, cy, nx, ny) ==
    LET c == AtIdx(m, cx, cy)
        n == AtIdx(m, nx, ny)
        g1 == IF nx > cx
                THEN [m.grid EXCEPT ![n].wE = FALSE, ![c].wW = FALSE]
              ELSE IF nx < cx
                THEN [m.grid EXCEPT ![n].wW = FALSE, ![c].wE = FALSE]
              ELSE IF ny > cy
                THEN [m.grid EXCEPT ![n].wS = FALSE, ![c].wN = FALSE]
              ELSE IF ny < cy
                THEN [m.grid EXCEPT ![n].wN = FALSE, ![c].wS = FALSE]
              ELSE m.grid
    IN  [m EXCEPT !.grid = [g1 EXCEPT ![n].visited = TRUE]]

\* CarveWalls that clears the flag of the current cell only
CarveWallsOneSided(m, cx, cy, nx, ny) ==
    LET c == AtIdx(m, cx, cy)
        n == AtIdx(m, nx, ny)
        g1 == IF nx > cx THEN [m.grid EXCEPT ![c].wE = FALSE]
              ELSE IF nx < cx THEN [m.grid EXCEPT ![c].wW = FALSE]
              ELSE IF ny > cy THEN [m.grid EXCEPT ![c].wS = FALSE]
              ELSE IF ny < cy THEN [m.grid EXCEPT ![c].wN = FALSE]
              ELSE m.grid
    IN  [m EXCEPT !.grid = [g1 EXCEPT ![n].visited = TRUE]]

\* the wall clearing if/else-if chain of Maze::generate, then visited = true
CarveWalls(m, cx, cy, nx, ny) ==
    LET c == AtIdx(m, cx, cy)
        n == AtIdx(m, nx, ny)
        g1 == IF nx > cx
                THEN [m.grid EXCEPT ![c].wE = FALSE, ![n].wW = FALSE]
              ELSE IF nx < cx
                THEN [m.grid EXCEPT ![c].wW = FALSE, ![n].wE = FALSE]
              ELSE IF ny > cy
                THEN [m.grid EXCEPT ![c].wS = FALSE, ![n].wN = FALSE]
              ELSE IF ny < cy
                THEN [m.grid EXCEPT ![c].wN = FALSE, ![n].wS = FALSE]
              ELSE m.grid
    IN  [m EXCEPT !.grid = [g1 EXCEPT ![n].visited = TRUE]]

\* GenerateBegin that forgets to mark the start cell
GenerateBeginUnmarked(m) == m

\* Maze::generate up to the while loop: mark (0,0) visited and push it
GenerateBegin(m) ==
    [m EXCEPT !.grid = [m.grid EXCEPT ![AtIdx(m, 0, 0)].visited = TRUE]]

\* the construction `Maze maze(w, h, ...); maze.generate();` entered
InitGenerate(width, height) ==
    /\ maze = GenerateBegin(MazeCtor(width, height,
                                     Quot(SheetW * width, CellsX),
                                     Quot(SheetH * height, CellsY)))
    /\ stack = << <<0, 0>> >>
    /\ pc = "generate"

\* one iteration of the while loop that finds an unvisited neighbour
GenerateCarve ==
    /\ pc = "generate"
    /\ stack # << >>
    /\ LET top == stack[Len(stack)]
           nb == Neighbors(maze, top[1], top[2])
       IN  /\ nb # << >>
           /\ \E k \in 1 .. Len(nb) :
                 /\ maze' = CarveWalls(maze, top[1], top[2], nb[k][1], nb[k][2])
                 /\ stack' = Append(stack, nb[k])
    /\ UNCHANGED <<pc, ball, pose, last>>

\* Pop that leaves the stack as it is
PopNothing(st) == st

\* stack.pop()
Pop(st) == SubSeq(st, 1, Len(st) - 1)

\* one iteration of the while loop that finds none: stack.pop()
GeneratePop ==
    /\ pc = "generate"
    /\ stack # << >>
    /\ Neighbors(maze, stack[Len(stack)][1], stack[Len(stack)][2]) = << >>
    /\ stack' = Pop(stack)
    /\ UNCHANGED <<maze, pc, ball, pose, last>>

\* the while loop ends: generate returns
GenerateReturn ==
    /\ pc = "generate"
    /\ stack = << >>
    /\ pc' = "generated"
    /\ UNCHANGED <<maze, stack, ball, pose, last>>

-----------------------------------------------------------------------------
(* Rotations: cv::Rodrigues and the cv::Mat products used by Ball *)

\* sin of 0, 5, .. 90 degrees, in 1/1000
SinTable == <<0, 87, 174, 259, 342, 423, 500, 574, 643, 707,
              766, 819, 866, 906, 940, 966, 985, 996, 1000>>

Sin(k) ==
    LET m == k % Turn
        q == Turn \div 4
    IN  IF m <= q THEN SinTable[m + 1]
        ELSE IF m <= 2 * q THEN SinTable[2 * q - m + 1]
        ELSE IF m <= 3 * q THEN -SinTable[m - 2 * q + 1]
        ELSE -SinTable[Turn - m + 1]

Cos(k) == Sin(k + Turn \div 4)

\* cv::Mat::eye(3,3,CV_64F)
Eye == << <<One, 0, 0>>, <<0, One, 0>>, <<0, 0, One>> >>

\* cv::Rodrigues(rvec, R) for a rotation vector along one coordinate axis
Rodrigues(rv) ==
    LET a == rv[1] + rv[2] + rv[3]
        c == Cos(a)
        s == Sin(a)
    IN  IF rv[1] # 0 THEN << <<One, 0, 0>>, <<0, c, -s>>, <<0, s, c>> >>
        ELSE IF rv[2] # 0 THEN << <<c, 0, s>>, <<0, One, 0>>, <<-s, 0, c>> >>
        ELSE IF rv[3] # 0 THEN << <<c, -s, 0>>, <<s, c, 0>>, <<0, 0, One>> >>
        ELSE Eye

\* cv::Mat::t()
Transpose(A) == [i \in 1 .. 3 |-> [j \in 1 .. 3 |-> A[j][i]]]

\* cv::Mat operator* on two 3x3 matrices
MatMul(A, B) ==
    [i \in 1 .. 3 |-> [j \in 1 .. 3 |->
        Quot(A[i][1] * B[1][j] + A[i][2] * B[2][j] + A[i][3] * B[3][j], One)]]

\* cv::Mat operator* on a 3x3 matrix and a 3x1 vector of whole numbers
MatVec(A, v) ==
    [i \in 1 .. 3 |-> A[i][1] * v[1] + A[i][2] * v[2] + A[i][3] * v[3]]

-----------------------------------------------------------------------------
(* class Ball *)

\* Ball::Ball(float r)
BallCtor(r) ==
    [pos |-> <<0, 0>>, vel |-> <<0, 0>>, radius |-> r,
     hasFlatRef |-> FALSE, R0 |-> Eye,
     g |-> BallG, gain |-> BallGain, deadzone |-> BallDeadzone]

\* Ball::reset(const Maze&)
Reset(b, m) ==
    [b EXCEPT !.pos = <<Quot(m.cellW, 2), Quot(m.cellH, 2)>>, !.vel = <<0, 0>>]

\* Ball::setFlatReference(const cv::Mat& rvec)
SetFlatReference(b, rv) ==
    [b EXCEPT !.R0 = Rodrigues(rv), !.hasFlatRef = TRUE]

\* ApplyDeadzone without the re-scaling: the value jumps at the edge
ApplyDeadzoneNoRescale(v, dz) ==
    IF Abs(v) < dz THEN 0 ELSE v

\* Ball::applyDeadzone(float v, float dz)
ApplyDeadzone(v, dz) ==
    IF Abs(v) < dz THEN 0
    ELSE LET s == IF v > 0 THEN 1 ELSE -1
             a == Quot((Abs(v) - dz) * One, One - dz)
         IN  s * a

\* Acceleration with g_cur = Rrel * g0, the transposition forgotten
AccelerationNoTranspose(b, R) ==
    LET Rrel == MatMul(Transpose(b.R0), R)
        g0 == <<0, 0, -1>>
        g_cur == MatVec(Rrel, g0)
        ax == ApplyDeadzone(g_cur[1], b.deadzone)
        ay == ApplyDeadzone(g_cur[2], b.deadzone)
    IN  <<-ax * b.g * b.gain, -ay * b.g * b.gain>>

\* Acceleration with the gravity taken in the camera frame, R0 ignored
AccelerationCameraFrame(b, R) ==
    LET g0 == <<0, 0, -1>>
        g_cur == MatVec(Transpose(R), g0)
        ax == ApplyDeadzone(g_cur[1], b.deadzone)
        ay == ApplyDeadzone(g_cur[2], b.deadzone)
    IN  <<-ax * b.g * b.gain, -ay * b.g * b.gain>>

\* Ball::update steps 3-7: the planar acceleration, in 1e-5 m/s^2
Acceleration(b, R) ==
    LET Rrel == MatMul(Transpose(b.R0), R)
        g0 == <<0, 0, -1>>
        g_cur == MatVec(Transpose(Rrel), g0)
        ax == ApplyDeadzone(g_cur[1], b.deadzone)
        ay == ApplyDeadzone(g_cur[2], b.deadzone)
    IN  <<-ax * b.g * b.gain, -ay * b.g * b.gain>>

\* Integrate without the friction vel *= 0.85f
IntegrateNoFriction(v, a, dt) == v + Quot(a * dt, AccDen)

\* Ball::update step 8: vel += acc * dt; vel *= 0.85f, on one axis
Integrate(v, a, dt) == Quot((v + Quot(a * dt, AccDen)) * FrictionPct, 100)

\* Ball::update: nextPos = pos + vel * dt, on one axis
Advance(p, v, dt) == p + Quot(v * dt, PosDen)

\* Collide that tests and clamps the centre of the ball, not its edge
CollideCentre(wLo, wHi, n, v, r, cellLo, cellHi) ==
    IF wLo /\ (n < cellLo)
        THEN <<cellLo, Quot(-v * BouncePct, 100), TRUE, FALSE>>
    ELSE IF wHi /\ (n > cellHi)
        THEN <<cellHi, Quot(-v * BouncePct, 100), FALSE, TRUE>>
    ELSE <<n, v, FALSE, FALSE>>

\* Collide that never looks at the high wall (wE, wS)
CollideLowOnly(wLo, wHi, n, v, r, cellLo, cellHi) ==
    IF wLo /\ (n - r < cellLo)
        THEN <<cellLo + r, Quot(-v * BouncePct, 100), TRUE, FALSE>>
    ELSE <<n, v, FALSE, FALSE>>

\* Ball::update: the if / else-if against the two walls of the cell on one axis
\* (wW, wE with cellLeft, cellRight; wN, wS with cellTop, cellBottom):
\* <<position, velocity, low wall hit, high wall hit>>
Collide(wLo, wHi, n, v, r, cellLo, cellHi) ==
    IF wLo /\ (n - r < cellLo)
        THEN <<cellLo + r, Quot(-v * BouncePct, 100), TRUE, FALSE>>
    ELSE IF wHi /\ (n + r > cellHi)
        THEN <<cellHi - r, Quot(-v * BouncePct, 100), FALSE, TRUE>>
    ELSE <<n, v, FALSE, FALSE>>

\* ClampBounds left out
ClampBoundsOff(n, r, max) == n

\* Ball::update: the clamp to the maze bounds on one axis
\* (if (n < r) n = r; if (n > max) n = max;)
ClampBounds(n, r, max) ==
    IF n < r
        THEN (IF r > max THEN max ELSE r)
        ELSE (IF n > max THEN max ELSE n)

\* LatchInUpdate without its test of hasFlatRef
LatchInUpdateAlways(b, R) ==
    [b EXCEPT !.R0 = R, !.hasFlatRef = TRUE]

\* Ball::update: the latch of the flat reference (step 2)
LatchInUpdate(b, R) ==
    IF ~b.hasFlatRef THEN [b EXCEPT !.R0 = R, !.hasFlatRef = TRUE] ELSE b

\* Move that looks up the collision cell at the tentative position
MoveCellOfNextPos(b, acc, dt, m) ==
    LET vx == Integrate(b.vel[1], acc[1], dt)
        vy == Integrate(b.vel[2], acc[2], dt)
        gx == Quot(Advance(b.pos[1], vx, dt), m.cellW)
        gy == Quot(Advance(b.pos[2], vy, dt), m.cellH)
        cell == At(m, gx, gy)
        cx == Collide(cell.wW, cell.wE, Advance(b.pos[1], vx, dt), vx, b.radius,
                      gx * m.cellW, (gx + 1) * m.cellW)
        cy == Collide(cell.wN, cell.wS, Advance(b.pos[2], vy, dt), vy, b.radius,
                      gy * m.cellH, (gy + 1) * m.cellH)
        px == ClampBounds(cx[1], b.radius, m.w * m.cellW - b.radius)
        py == ClampBounds(cy[1], b.radius, m.h * m.cellH - b.radius)
    IN  [ball |-> [b EXCEPT !.pos = <<px, py>>, !.vel = <<cx[2], cy[2]>>],
         acc |-> acc,
         wall |-> <<cx[3] \/ cx[4], cy[3] \/ cy[4]>>,
         bound |-> <<px # cx[1], py # cy[1]>>]

\* Ball::update from the acceleration on: integration, collisions, bounds
Move(b, acc, dt, m) ==
    LET vx == Integrate(b.vel[1], acc[1], dt)
        vy == Integrate(b.vel[2], acc[2], dt)
        gx == Quot(b.pos[1], m.cellW)
        gy == Quot(b.pos[2], m.cellH)
        cell == At(m, gx, gy)
        cx == Collide(cell.wW, cell.wE, Advance(b.pos[1], vx, dt), vx, b.radius,
                      gx * m.cellW, (gx + 1) * m.cellW)
        cy == Collide(cell.wN, cell.wS, Advance(b.pos[2], vy, dt), vy, b.radius,
                      gy * m.cellH, (gy + 1) * m.cellH)
        px == ClampBounds(cx[1], b.radius, m.w * m.cellW - b.radius)
        py == ClampBounds(cy[1], b.radius, m.h * m.cellH - b.radius)
    IN  [ball |-> [b EXCEPT !.pos = <<px, py>>, !.vel = <<cx[2], cy[2]>>],
         acc |-> acc,
         wall |-> <<cx[3] \/ cx[4], cy[3] \/ cy[4]>>,
         bound |-> <<px # cx[1], py # cy[1]>>]

\* Ball::update(float dt, const cv::Mat& rvec, const Maze& maze): the new ball,
\* with the acceleration, and per axis whether a wall branch was taken and
\* whether the clamp to the maze bounds changed the position
UpdateSteps(b, dt, rv, m) ==
    LET b1 == LatchInUpdate(b, Rodrigues(rv))
    IN  Move(b1, Acceleration(b1, Rodrigues(rv)), dt, m)

\* the ball after Ball::update
Update(b, dt, rv, m) == UpdateSteps(b, dt, rv, m).ball

-----------------------------------------------------------------------------
(* struct PoseSmoother *)

\* an empty cv::Mat
Empty == << >>

\* PoseSmoother with its default member initialisers
PoseSmootherCtor ==
    [hasPose |-> FALSE, rPrev |-> Empty, tPrev |-> Empty, alphaPose |-> AlphaDefault]

\* the axis (1, 2, 3; 0 for the null rotation) and the signed angle of a
\* rotation vector along one coordinate axis
AxisOf(rv) == IF rv[1] # 0 THEN 1 ELSE IF rv[2] # 0 THEN 2 ELSE IF rv[3] # 0 THEN 3 ELSE 0
AngleOf(rv) == rv[1] + rv[2] + rv[3]

\* an angle brought into (-180, 180] degrees
NormAngle(a) == ((a + Turn \div 2 - 1) % Turn) - (Turn \div 2 - 1)

\* cv::Rodrigues(rvec, R) then toQuat(R) = glm::quat_cast: the quaternion
\* (cos(q/2), sin(q/2) * axis), given by q in [-90, 270) degrees. quat_cast
\* returns w >= 0 while |w| is the largest component and otherwise makes the
\* largest axis component positive.
ToQuat(rv) ==
    LET t == NormAngle(AngleOf(rv))
    IN  IF t >= -(Turn \div 4) THEN t ELSE t + Turn

\* glm::dot(qCur, qPre) < 0 for two quaternions about the same axis:
\* cos((qc - qp) / 2) < 0
DotNegative(qc, qp) == Abs(qc - qp) % (2 * Turn) > Turn \div 2
                       /\ Abs(qc - qp) % (2 * Turn) < Turn + Turn \div 2

\* Negate that returns the quaternion as it is
NegateNothing(qc, qp) == qc

\* -q for the quaternion given by q, chosen next to qp
Negate(qc, qp) == IF qc > qp THEN qc - Turn ELSE qc + Turn

\* if (glm::dot(qCur, qPre) < 0.0f) qCur = -qCur;
SignCorrect(qc, qp) == IF DotNegative(qc, qp) THEN Negate(qc, qp) ELSE qc

\* glm::slerp(qPre, qCur, alpha), with its own shortest-path negation
Slerp(qp, qc, alpha) ==
    LET z == IF DotNegative(qc, qp) THEN Negate(qc, qp) ELSE qc
    IN  qp + Quot(alpha * (z - qp), 100)

\* glm::mat3_cast(qSm), the copy to Rsm and cv::Rodrigues(Rsm, rvec): the
\* rotation vector of the quaternion given by q about the axis
FromQuat(q, axis) ==
    [i \in 1 .. 3 |-> IF i = axis THEN NormAngle(q) ELSE 0]

\* tvec = (1.0 - alphaPose) * tPrev + alphaPose * tvec
BlendTranslation(alpha, tP, t) ==
    [i \in 1 .. 3 |-> Quot((100 - alpha) * tP[i] + alpha * t[i], 100)]

\* the rotation part of PoseSmoother::smooth, for rvec and rPrev about the
\* same coordinate axis
BlendRotation(alpha, rP, rv) ==
    LET axis == IF AxisOf(rv) # 0 THEN AxisOf(rv) ELSE AxisOf(rP)
        qPre == ToQuat(rP)
        qCur == SignCorrect(ToQuat(rv), qPre)
    IN  FromQuat(Slerp(qPre, qCur, alpha), axis)

\* SmoothInit that forgets hasPose = true
SmoothInitNoFlag(ps, rv, tv) ==
    [ps |-> [ps EXCEPT !.rPrev = rv, !.tPrev = tv], rvec |-> rv, tvec |-> tv]

\* PoseSmoother::smooth, the branch if (!hasPose)
SmoothInit(ps, rv, tv) ==
    [ps |-> [ps EXCEPT !.rPrev = rv, !.tPrev = tv, !.hasPose = TRUE],
     rvec |-> rv, tvec |-> tv]

\* SmoothBlend that keeps the raw input as its state
SmoothBlendKeepsRaw(ps, rv, tv) ==
    [ps |-> [ps EXCEPT !.rPrev = rv, !.tPrev = tv],
     rvec |-> BlendRotation(ps.alphaPose, ps.rPrev, rv),
     tvec |-> BlendTranslation(ps.alphaPose, ps.tPrev, tv)]

\* PoseSmoother::smooth after the first call: EMA of the translation, SLERP
\* of the rotation, both written to the arguments and to the state
SmoothBlend(ps, rv, tv) ==
    LET t1 == BlendTranslation(ps.alphaPose, ps.tPrev, tv)
        r1 == BlendRotation(ps.alphaPose, ps.rPrev, rv)
    IN  [ps |-> [ps EXCEPT !.rPrev = r1, !.tPrev = t1], rvec |-> r1, tvec |-> t1]

\* Smooth that tests for empty arguments only after the first-call branch
SmoothInitBeforeEmptyTest(ps, rv, tv) ==
    IF ~ps.hasPose THEN SmoothInit(ps, rv, tv)
    ELSE IF rv = Empty \/ tv = Empty THEN [ps |-> ps, rvec |-> rv, tvec |-> tv]
    ELSE SmoothBlend(ps, rv, tv)

\* PoseSmoother::smooth(cv::Mat& rvec, cv::Mat& tvec): the smoother and the
\* two arguments after the call
Smooth(ps, rv, tv) ==
    IF rv = Empty \/ tv = Empty THEN [ps |-> ps, rvec |-> rv, tvec |-> tv]
    ELSE IF ~ps.hasPose THEN SmoothInit(ps, rv, tv)
    ELSE SmoothBlend(ps, rv, tv)

\* the two rotation vectors turn about one axis (or one is null)
SameAxis(r1, r2) ==
    IF r1 = Empty \/ r2 = Empty THEN TRUE
    ELSE AxisOf(r1) = 0 \/ AxisOf(r2) = 0 \/ AxisOf(r1) = AxisOf(r2)

-----------------------------------------------------------------------------
(* Maze::generate on its own *)

NoOp == [op |-> "none"]

\* main's locals before the loop: PoseSmoother poseSmooth with
\* alphaPose = 0.25, empty rvec and tvec, hasPose = false
InitPose ==
    /\ poseSmooth = [PoseSmootherCtor EXCEPT !.alphaPose = AlphaMain]
    /\ rvec = Empty
    /\ tvec = Empty
    /\ hasPose = FALSE

InitMaze ==
    /\ \E width \in 1 .. MaxW, height \in 1 .. MaxH : InitGenerate(width, height)
    /\ ball = BallCtor(BallR)
    /\ InitPose
    /\ last = NoOp

NextMaze == GenerateCarve \/ GeneratePop \/ GenerateReturn

SpecMaze == InitMaze /\ [][NextMaze]_vars

-----------------------------------------------------------------------------
(* Properties of the generated maze *)

Cells(m) == (0 .. m.w - 1) \X (0 .. m.h - 1)

\* a flood fill may move from cell c to cell d: they are adjacent and the
\* wall of c on the side of d is cleared
Passage(m, c, d) ==
    \/ d[1] = c[1] + 1 /\ d[2] = c[2] /\ ~At(m, c[1], c[2]).wE
    \/ d[1] = c[1] - 1 /\ d[2] = c[2] /\ ~At(m, c[1], c[2]).wW
    \/ d[1] = c[1] /\ d[2] = c[2] + 1 /\ ~At(m, c[1], c[2]).wS
    \/ d[1] = c[1] /\ d[2] = c[2] - 1 /\ ~At(m, c[1], c[2]).wN

RECURSIVE Flood(_, _)
Flood(m, seen) ==
    LET more == {d \in Cells(m) \ seen : \E c \in seen : Passage(m, c, d)}
    IN  IF more = {} THEN seen ELSE Flood(m, seen \cup more)

\* the pairs of adjacent cells whose shared wall is cleared on both sides
OpenPairs(m) ==
    {p \in Cells(m) \X Cells(m) :
        /\ \/ p[2][1] = p[1][1] + 1 /\ p[2][2] = p[1][2]
           \/ p[2][1] = p[1][1] /\ p[2][2] = p[1][2] + 1
        /\ Passage(m, p[1], p[2])
        /\ Passage(m, p[2], p[1])}

Generated == pc = "generated"

(* C3: after Maze::generate a flood fill from cell (0,0) over cleared      *)
(* walls visits all W*H cells.                                             *)
C3_FloodVisitsAll ==
    Generated => Flood(maze, {<<0, 0>>}) = Cells(maze)

\* a generated 3 x 3 maze in which some cell has three cleared walls: the
\* carving backtracked and branched
C3_Witness ==
    /\ Generated
    /\ maze.w = 3 /\ maze.h = 3
    /\ \E c \in Cells(maze) :
          Cardinality({d \in Cells(maze) : Passage(maze, c, d)}) = 3

(* C4: after Maze::generate exactly W*H - 1 pairs of adjacent cells have   *)
(* the wall between them cleared, and every cell is reached over them: the *)
(* passages form a tree.                                                   *)
C4_PassagesFormTree ==
    Generated =>
        /\ Cardinality(OpenPairs(maze)) = maze.w * maze.h - 1
        /\ \A c \in Cells(maze) : c \in Flood(maze, {<<0, 0>>})

\* a generated maze that is not a single corridor: it has a dead end other
\* than the two ends of a path
C4_Witness ==
    /\ Generated
    /\ maze.w >= 2 /\ maze.h >= 2
    /\ Cardinality({c \in Cells(maze) :
            Cardinality({d \in Cells(maze) : Passage(maze, c, d)}) = 1}) >= 3

-----------------------------------------------------------------------------
(* The ball on a generated maze: reset, then any sequence of updates *)

\* rotation vectors of the board: a tilt about X or about Y
TiltAngles == {-6, 0, 6}
Tilts == {<<k, 0, 0>> : k \in TiltAngles} \cup {<<0, k, 0>> : k \in TiltAngles}

\* timesteps: both ends of the clamped range and 1/60 s
DtChoices == {DtMin, 8 * DtMin, DtMax}

\* the grids the ball is played on
PlaySizes == {s \in (1 .. MaxW) \X (1 .. MaxH) : s[1] * s[2] <= PlayCells}

InitBall ==
    /\ \E s \in PlaySizes : InitGenerate(s[1], s[2])
    /\ ball = BallCtor(BallR)
    /\ InitPose
    /\ last = NoOp

\* main.cpp: Ball ball(ballR); ball.reset(maze);
BallReset ==
    /\ pc = "generated"
    /\ ball' = Reset(BallCtor(BallR), maze)
    /\ pc' = "play"
    /\ last' = [op |-> "reset"]
    /\ UNCHANGED <<maze, stack, pose>>

\* one call ball.update(dt, rvec, maze)
BallUpdate ==
    /\ pc = "play"
    /\ \E dt \in DtChoices, rv \in Tilts :
          \E u \in {UpdateSteps(ball, dt, rv, maze)} :
              /\ ball' = u.ball
              /\ last' = [op |-> "update",
                           push |-> <<Sign(u.acc[1]), Sign(u.acc[2])>>,
                           wall |-> u.wall, bound |-> u.bound]
    /\ UNCHANGED <<maze, stack, pc, pose>>

NextBall == GenerateCarve \/ GeneratePop \/ GenerateReturn \/ BallReset \/ BallUpdate

SpecBall == InitBall /\ [][NextBall]_vars

-----------------------------------------------------------------------------
(* Geometry used to state the properties of the ball *)

\* the grid cell that contains position p, as Ball::update finds it
CellX(p) == Quot(p[1], maze.cellW)
CellY(p) == Quot(p[2], maze.cellH)
CellOf(p) == At(maze, CellX(p), CellY(p))
CellLeft(p) == CellX(p) * maze.cellW
CellRight(p) == (CellX(p) + 1) * maze.cellW
CellTop(p) == CellY(p) * maze.cellH
CellBottom(p) == (CellY(p) + 1) * maze.cellH

\* position q, with the ball's radius, is inside every flagged wall of the
\* cell that contains position p
InsideWallsOf(p, q) ==
    /\ CellOf(p).wW => q[1] - ball.radius >= CellLeft(p)
    /\ CellOf(p).wE => q[1] + ball.radius <= CellRight(p)
    /\ CellOf(p).wN => q[2] - ball.radius >= CellTop(p)
    /\ CellOf(p).wS => q[2] + ball.radius <= CellBottom(p)

Updated == pc = "play" /\ last.op = "update"

\* a step that is one Ball::update
UpdateStep == pc = "play" /\ pc' = "play" /\ last'.op = "update"

-----------------------------------------------------------------------------
(* C1: after every Ball::update the ball position is within                *)
(* [radius, w*cellW - radius] x [radius, h*cellH - radius].                *)
C1_BallInBounds ==
    Updated =>
        /\ ball.radius <= ball.pos[1]
        /\ ball.pos[1] <= maze.w * maze.cellW - ball.radius
        /\ ball.radius <= ball.pos[2]
        /\ ball.pos[2] <= maze.h * maze.cellH - ball.radius

\* an update would have carried the ball past the east bound, no wall of
\* its cell was in the way, and the clamp to the maze bounds stopped it
C1_Witness ==
    /\ Updated
    /\ last.bound[1] /\ ~last.wall[1]
    /\ ball.pos[1] = maze.w * maze.cellW - ball.radius

(* C5: when the cell of the ball has its wall flag set on a side and the   *)
(* update accelerates the ball toward that side, the position after the    *)
(* update is not beyond that wall plane offset by the radius.              *)
C5_WallImpermeable ==
    [][UpdateStep =>
         /\ (CellOf(ball.pos).wE /\ last'.push[1] > 0)
                => ball'.pos[1] <= CellRight(ball.pos) - ball.radius
         /\ (CellOf(ball.pos).wW /\ last'.push[1] < 0)
                => ball'.pos[1] >= CellLeft(ball.pos) + ball.radius
         /\ (CellOf(ball.pos).wS /\ last'.push[2] > 0)
                => ball'.pos[2] <= CellBottom(ball.pos) - ball.radius
         /\ (CellOf(ball.pos).wN /\ last'.push[2] < 0)
                => ball'.pos[2] >= CellTop(ball.pos) + ball.radius]_vars

\* the ball, pushed east, lies against the flagged inner east wall of its
\* cell with its velocity reflected
C5_Witness ==
    /\ Updated
    /\ last.push[1] > 0
    /\ last.wall[1]
    /\ CellOf(ball.pos).wE
    /\ CellX(ball.pos) < maze.w - 1
    /\ ball.pos[1] = CellRight(ball.pos) - ball.radius
    /\ ball.vel[1] < 0

(* C6 as claimed: after every Ball::update the ball is inside every        *)
(* flagged wall of the cell that contains its new position.                *)
C6_Claimed == Updated => InsideWallsOf(ball.pos, ball.pos)

(* C6 as the code has it: after every Ball::update the ball is inside      *)
(* every flagged wall of the cell that contained its position before the   *)
(* update.                                                                 *)
C6_InsideWallsOfOldCell ==
    [][UpdateStep => InsideWallsOf(ball.pos, ball'.pos)]_vars

\* an update stopped the ball at a wall on both axes, in a cell other than
\* the start cell
C6_Witness ==
    /\ Updated
    /\ last.wall[1] /\ last.wall[2]
    /\ <<CellX(ball.pos), CellY(ball.pos)>> # <<0, 0>>

-----------------------------------------------------------------------------
(* PoseSmoother on its own: any sequence of calls of smooth *)

\* rotation vector of angle a about axis
OnAxis(axis, a) == [i \in 1 .. 3 |-> IF i = axis THEN a ELSE 0]

\* raw poses handed to smooth: rotations about X or Y by multiples of 30
\* degrees, translations in units of 10 cm
SmoothAngles == {-30, -18, -6, 0, 6, 18, 30, 36}
SmoothRvecs == {OnAxis(axis, a) : axis \in 1 .. 2, a \in SmoothAngles}
SmoothTvecs == {<<0, 0, 4>>, <<2, -2, 8>>}

InitSmooth ==
    /\ maze = MazeCtor(1, 1, SheetW, SheetH)
    /\ stack = << >>
    /\ pc = "smooth"
    /\ ball = BallCtor(BallR)
    /\ \E alpha \in {AlphaDefault, AlphaMain} :
          poseSmooth = [PoseSmootherCtor EXCEPT !.alphaPose = alpha]
    /\ rvec = Empty
    /\ tvec = Empty
    /\ hasPose = FALSE
    /\ last = NoOp

\* one call poseSmooth.smooth(rvec, tvec) on arguments rv, tv
SmoothCall ==
    /\ pc = "smooth"
    /\ \E rv \in SmoothRvecs \cup {Empty}, tv \in SmoothTvecs \cup {Empty} :
          /\ SameAxis(rv, poseSmooth.rPrev)
          /\ \E u \in {Smooth(poseSmooth, rv, tv)} :
                /\ poseSmooth' = u.ps
                /\ rvec' = u.rvec
                /\ tvec' = u.tvec
          /\ last' = [op |-> "smooth", rawR |-> rv, rawT |-> tv,
                      was |-> poseSmooth.hasPose]
    /\ UNCHANGED <<maze, stack, pc, ball, hasPose>>

NextSmooth == SmoothCall

SpecSmooth == InitSmooth /\ [][NextSmooth]_vars

\* the step is a call of smooth with two non-empty arguments
SmoothStep == last'.op = "smooth" /\ last'.rawR # Empty /\ last'.rawT # Empty

\* C9: the first call of smooth with non-empty inputs stores the raw rvec and
\* tvec verbatim as rPrev and tPrev, returns both arguments unchanged and sets
\* hasPose.
C9_FirstCallStoresRaw ==
    [][(SmoothStep /\ ~poseSmooth.hasPose) =>
          /\ poseSmooth'.rPrev = last'.rawR
          /\ poseSmooth'.tPrev = last'.rawT
          /\ rvec' = last'.rawR
          /\ tvec' = last'.rawT
          /\ poseSmooth'.hasPose]_vars

\* a first call with a turned pose has run
C9_Witness ==
    /\ last.op = "smooth" /\ ~last.was
    /\ last.rawR # Empty /\ last.rawT # Empty
    /\ AxisOf(last.rawR) # 0
    /\ poseSmooth.hasPose

\* C10: on a later call the returned translation is
\* (1 - alpha) * tPrev + alpha * t_raw, and the stored (rPrev, tPrev) equals the
\* filtered values returned, not the raw input.
C10_LaterCallsBlend ==
    [][(SmoothStep /\ poseSmooth.hasPose) =>
          /\ \A i \in 1 .. 3 :
                tvec'[i] = Quot((100 - poseSmooth.alphaPose) * poseSmooth.tPrev[i]
                                + poseSmooth.alphaPose * last'.rawT[i], 100)
          /\ poseSmooth'.tPrev = tvec'
          /\ poseSmooth'.rPrev = rvec'
          /\ poseSmooth'.hasPose]_vars

\* a later call has returned a pose that is neither the raw one nor the
\* previous one
C10_Witness ==
    /\ last.op = "smooth" /\ last.was
    /\ last.rawR # Empty /\ last.rawT # Empty
    /\ tvec # last.rawT /\ rvec # last.rawR
    /\ poseSmooth.tPrev = tvec /\ poseSmooth.rPrev = rvec
    /\ tvec[3] > 4 /\ tvec[3] < 8

\* C11: smooth called with an empty rotation or an empty translation returns
\* without changing hasPose, rPrev, tPrev, alphaPose or its arguments, whatever
\* the smoother held before.
C11_EmptyInputNoOp ==
    [][(last'.op = "smooth" /\ (last'.rawR = Empty \/ last'.rawT = Empty)) =>
          /\ poseSmooth' = poseSmooth
          /\ rvec' = last'.rawR
          /\ tvec' = last'.rawT]_vars

\* a smoother that holds a turned pose was called with an empty rotation and
\* a translation
C11_Witness ==
    /\ last.op = "smooth" /\ last.was
    /\ last.rawR = Empty /\ last.rawT # Empty
    /\ tvec = last.rawT
    /\ poseSmooth.hasPose /\ AxisOf(poseSmooth.rPrev) # 0

-----------------------------------------------------------------------------
(* main: start-up, then the frame loop *)

\* ClampDt without the floor std::max(dt, 1.0f/500.0f)
ClampDtNoFloor(delta) ==
    IF delta < DtMax THEN delta ELSE DtMax

\* dt = std::min(dt, 1.0f/20.0f); dt = std::max(dt, 1.0f/500.0f);
ClampDt(delta) ==
    LET lo == IF delta < DtMax THEN delta ELSE DtMax
    IN  IF lo > DtMin THEN lo ELSE DtMin

\* the detection block: poseOk stays false without markers or with fewer than
\* MinCorners interpolated corners, and is else what estimatePoseCharucoBoard
\* returns
Detect(nMarkers, nCorners, estOk) ==
    IF nMarkers = 0 THEN "markers"
    ELSE IF nCorners < MinCorners THEN "corners"
    ELSE IF ~estOk THEN "estimate"
    ELSE "ok"

\* PoseStep that forgets the held pose when the detection fails
PoseStepDropsPose(ps, rv, tv, hp, poseOk, rawR, rawT) ==
    IF poseOk
    THEN LET u == Smooth(ps, rawR, rawT)
         IN  [ps |-> u.ps, rvec |-> u.rvec, tvec |-> u.tvec, hasPose |-> TRUE]
    ELSE [ps |-> ps, rvec |-> rv, tvec |-> tv, hasPose |-> FALSE]

\* the detection block and if (poseOk) { poseSmooth.smooth(rvec, tvec);
\* hasPose = true; }. estimatePoseCharucoBoard writes rvec and tvec when it
\* returns true and leaves them alone otherwise.
PoseStep(ps, rv, tv, hp, poseOk, rawR, rawT) ==
    IF poseOk
    THEN LET u == Smooth(ps, rawR, rawT)
         IN  [ps |-> u.ps, rvec |-> u.rvec, tvec |-> u.tvec, hasPose |-> TRUE]
    ELSE [ps |-> ps, rvec |-> rv, tvec |-> tv, hasPose |-> hp]

\* LatchOnFirstPose left out: the latch is left to Ball::update
LatchOnFirstPoseOff(b, poseOk, rv) == b

\* LatchOnFirstPose without its test of hasFlatRef
LatchOnEveryPose(b, poseOk, rv) ==
    IF poseOk THEN SetFlatReference(b, rv) ELSE b

\* if (poseOk && !ball.hasFlatRef) ball.setFlatReference(rvec);
LatchOnFirstPose(b, poseOk, rv) ==
    IF poseOk /\ ~b.hasFlatRef THEN SetFlatReference(b, rv) ELSE b

\* ResetKey that leaves the velocity alone
ResetKeyKeepsVel(b, keyR, rv) ==
    IF keyR THEN SetFlatReference(b, rv) ELSE b

\* if (glfwGetKey(win, GLFW_KEY_R) == GLFW_PRESS) { ball.setFlatReference(rvec);
\* ball.vel = glm::vec2(0,0); }
ResetKey(b, keyR, rv) ==
    IF keyR THEN [SetFlatReference(b, rv) EXCEPT !.vel = <<0, 0>>] ELSE b

\* PlayStep whose reset key also acts while no pose is held
PlayStepKeyWithoutPose(b, hp, keyR, dt, rv, m) ==
    IF hp THEN Update(ResetKey(b, keyR, rv), dt, rv, m)
    ELSE IF keyR THEN [b EXCEPT !.hasFlatRef = TRUE, !.vel = <<0, 0>>]
    ELSE b

\* PlayStep that steps the ball before it looks at the reset key
PlayStepUpdateThenKey(b, hp, keyR, dt, rv, m) ==
    IF hp THEN ResetKey(Update(b, dt, rv, m), keyR, rv) ELSE b

\* the block if (hasPose) { .. } of the loop body, as far as the ball goes:
\* the reset key, then ball.update(dt, rvec, maze)
PlayStep(b, hp, keyR, dt, rv, m) ==
    IF hp THEN Update(ResetKey(b, keyR, rv), dt, rv, m) ELSE b

\* the statements of the loop body that touch the frame, the pose or the
\* ball, in the order in which an iteration runs them: video.read, the
\* detection block, poseSmooth.smooth, the latch ball.setFlatReference, and in
\* if (hasPose) the reset key block, ball.update and ball.draw
FrameTrace(poseOk, latch, hp, keyR) ==
    <<"read", "detect">>
        \o (IF poseOk THEN <<"smooth">> ELSE << >>)
        \o (IF latch THEN <<"latch">> ELSE << >>)
        \o (IF hp /\ keyR THEN <<"key">> ELSE << >>)
        \o (IF hp THEN <<"update", "draw">> ELSE << >>)

\* inputs of a frame: the measured time since the last frame, the pose the
\* detector finds (tilts of 30 degrees about Y, the board 40 cm away)
DeltaChoices == {0, 8 * DtMin, 40 * DtMax}
LoopRvecs == {OnAxis(2, a) : a \in {-6, 6}}
LoopTvecs == {<<0, 0, 4>>}
LoopSizes == {s \in (1 .. MaxW) \X (1 .. MaxH) : s[1] * s[2] <= LoopCells}

InitLoop ==
    /\ \E s \in LoopSizes : InitGenerate(s[1], s[2])
    /\ ball = BallCtor(BallR)
    /\ InitPose
    /\ last = NoOp

\* what the detector finds in a frame: the number of markers, the number of
\* interpolated corners, the result of the estimation
DetectChoices == {<<0, 0, FALSE>>, <<4, 5, FALSE>>, <<4, 6, FALSE>>, <<4, 6, TRUE>>}

\* one complete iteration of while (!glfwWindowShouldClose(win))
Frame ==
    /\ pc = "play"
    /\ \E delta \in DeltaChoices, det \in DetectChoices, keyR \in BOOLEAN :
       \E poseOk \in {Detect(det[1], det[2], det[3]) = "ok"} :
       \E rawR \in IF poseOk THEN LoopRvecs ELSE {Empty},
          rawT \in IF poseOk THEN LoopTvecs ELSE {Empty} :
          /\ SameAxis(rawR, poseSmooth.rPrev)
          /\ \E p \in {PoseStep(poseSmooth, rvec, tvec, hasPose, poseOk, rawR, rawT)} :
             \E b1 \in {LatchOnFirstPose(ball, poseOk, p.rvec)} :
             \E b2 \in {PlayStep(b1, p.hasPose, keyR, ClampDt(delta), p.rvec, maze)} :
                /\ poseSmooth' = p.ps
                /\ rvec' = p.rvec
                /\ tvec' = p.tvec
                /\ hasPose' = p.hasPose
                /\ ball' = b2
                /\ last' = [op |-> "frame", poseOk |-> poseOk, keyR |-> keyR,
                            detect |-> Detect(det[1], det[2], det[3]),
                            delta |-> delta, dt |-> ClampDt(delta),
                            rawR |-> rawR, first |-> poseOk /\ ~hasPose,
                            drawn |-> IF p.hasPose THEN <<p.rvec, p.tvec>> ELSE Empty,
                            steps |-> FrameTrace(poseOk, poseOk /\ ~ball.hasFlatRef,
                                                 p.hasPose, keyR),
                            ballDrawn |-> IF p.hasPose THEN b2.pos ELSE Empty,
                            changed |-> b2.R0 # ball.R0,
                            stopped |-> ball.vel # <<0, 0>>]
    /\ UNCHANGED <<maze, stack, pc>>

\* an iteration that ends at if (!video.read(frame) || frame.empty()) break;
\* nothing is written to std::cerr, the cleanup runs and main returns 0
FrameReadFails ==
    /\ pc = "play"
    /\ pc' = "exit"
    /\ last' = [op |-> "break", status |-> 0, report |-> "none"]
    /\ UNCHANGED <<maze, stack, ball, pose>>

\* glfwWindowShouldClose(win) ends the loop, the cleanup runs and main returns 0
WindowClose ==
    /\ pc = "play"
    /\ pc' = "exit"
    /\ last' = [op |-> "close", status |-> 0, report |-> "none"]
    /\ UNCHANGED <<maze, stack, ball, pose>>

NextLoop ==
    \/ GenerateCarve
    \/ GeneratePop
    \/ GenerateReturn
    \/ BallReset
    \/ Frame
    \/ FrameReadFails
    \/ WindowClose

SpecLoop == InitLoop /\ [][NextLoop]_vars

\* the step is a complete frame
FrameStep == last'.op = "frame" /\ last' # last

\* C2: once the flat reference is latched, R0 changes only in a frame in which
\* the reset key is pressed, and the latch is never undone.
C2_R0ChangesOnlyOnResetKey ==
    [][ball.hasFlatRef =>
          /\ ball'.hasFlatRef
          /\ ball'.R0 # ball.R0 => (last'.op = "frame" /\ last'.keyR)]_vars

\* a frame with a successful detection and without the key has left a latched
\* R0 alone although the pose has turned away from it and the ball is rolling
C2_Witness ==
    /\ last.op = "frame" /\ last.poseOk /\ ~last.keyR /\ ~last.first
    /\ ball.hasFlatRef
    /\ ball.R0 # Rodrigues(rvec)
    /\ ball.vel # <<0, 0>>

\* C7: at the end of the first frame with a successful pose estimation
\* hasFlatRef is set and R0 is the rotation matrix of the pose the filter
\* returned, which is the raw detected one; in a later frame without the reset
\* key the latch leaves the ball alone.
C7_FirstPoseLatches ==
    [][last'.op = "frame" =>
          /\ (last'.poseOk /\ ~hasPose) =>
                /\ ball'.hasFlatRef
                /\ rvec' = last'.rawR
                /\ ball'.R0 = Rodrigues(last'.rawR)
          /\ (hasPose /\ ~last'.keyR) =>
                /\ ball.hasFlatRef /\ ball'.hasFlatRef
                /\ ball'.R0 = ball.R0]_vars

\* the first successful frame has latched a tilted reference
C7_Witness ==
    /\ last.op = "frame" /\ last.first
    /\ ball.hasFlatRef
    /\ ball.R0 # Eye
    /\ ball.R0 = Rodrigues(last.rawR)

\* C8: a frame with the reset key and a pose replaces R0 by the rotation of
\* the current pose and ends with the velocity (0,0); the position is kept
\* (a ball inside the walls of its cell stays where it was).
C8_ResetKey ==
    [][(last'.op = "frame" /\ last'.keyR /\ hasPose') =>
          /\ ball'.hasFlatRef
          /\ ball'.R0 = Rodrigues(rvec')
          /\ ball'.vel = <<0, 0>>
          /\ InsideWallsOf(ball.pos, ball.pos) => ball'.pos = ball.pos]_vars

\* the reset key has stopped a rolling ball away from its start position and
\* replaced the reference by another rotation
C8_Witness ==
    /\ last.op = "frame" /\ last.keyR /\ hasPose
    /\ last.changed /\ last.stopped /\ ~last.first
    /\ ball.pos # Reset(ball, maze).pos
    /\ ball.vel = <<0, 0>>

\* the frame found no pose
NoPoseStep == last'.op = "frame" /\ ~last'.poseOk

\* a frame without a pose goes on with the loop and leaves the smoother and
\* the held rvec, tvec and hasPose alone; with a pose from an earlier frame it
\* draws and steps the ball with the last smoothed pose, else it leaves the
\* ball alone
HoldsLastPose ==
    /\ pc' = "play"
    /\ poseSmooth' = poseSmooth /\ rvec' = rvec /\ tvec' = tvec /\ hasPose' = hasPose
    /\ hasPose =>
          /\ rvec = poseSmooth.rPrev /\ tvec = poseSmooth.tPrev
          /\ last'.drawn = <<poseSmooth.rPrev, poseSmooth.tPrev>>
          /\ ball' = Update(ResetKey(ball, last'.keyR, poseSmooth.rPrev),
                            last'.dt, poseSmooth.rPrev, maze)
    /\ ~hasPose => ball' = ball

\* C12 as stated: a frame in which the detection yields no pose never ends
\* the loop, leaves the pose filter, the held rvec and tvec and the flat
\* reference unchanged, and steps and draws with the last smoothed pose.
C12_Claimed ==
    [][NoPoseStep =>
          /\ HoldsLastPose
          /\ ball'.R0 = ball.R0 /\ ball'.hasFlatRef = ball.hasFlatRef]_vars

\* C12: a frame in which the detection yields no pose never ends the loop,
\* leaves the pose filter and the held rvec and tvec unchanged and steps and
\* draws with the last smoothed pose; it leaves the flat reference unchanged
\* unless the reset key is pressed while a pose is held, and then R0 becomes
\* the rotation of the held pose.
C12_NoPoseFrameHolds ==
    [][NoPoseStep =>
          /\ HoldsLastPose
          /\ ball'.hasFlatRef = ball.hasFlatRef
          /\ ball'.R0 =
                IF last'.keyR /\ hasPose THEN Rodrigues(rvec) ELSE ball.R0]_vars

\* a frame whose estimation failed has moved the ball with the held pose
C12_Witness ==
    /\ last.op = "frame" /\ last.detect = "estimate" /\ ~last.keyR
    /\ pc = "play" /\ hasPose
    /\ last.drawn = <<rvec, tvec>>
    /\ ball.vel # <<0, 0>>
    /\ ball.R0 # Rodrigues(rvec)

-----------------------------------------------------------------------------
(* The gravity computation of Ball::update on its own *)

\* poses of the board: rotations about X, Y or Z by multiples of 30 degrees
TiltRvecs == {OnAxis(axis, 6 * n) : axis \in 1 .. 3, n \in -5 .. 6}

\* values handed to applyDeadzone, in 1/1000
DeadzoneInputs == -One .. One
DeadzoneWidths == {0, BallDeadzone, 250}

InitTilt ==
    /\ maze = MazeCtor(1, 1, SheetW, SheetH)
    /\ stack = << >>
    /\ pc = "tilt"
    /\ ball = BallCtor(BallR)
    /\ InitPose
    /\ last = NoOp

\* ball.setFlatReference(rvec) on any pose
TiltSetFlatReference ==
    /\ pc = "tilt"
    /\ pc' = "latched"
    /\ \E rv \in TiltRvecs : ball' = SetFlatReference(ball, rv)
    /\ last' = [op |-> "reference"]
    /\ UNCHANGED <<maze, stack, pose>>

\* steps 1 and 3-7 of ball.update(dt, rvec, maze) on any pose, and the same
\* steps when the camera is mounted turned by Q, which makes the reference
\* Q * R0 and the current rotation Q * R
TiltAcceleration ==
    /\ pc = "latched"
    /\ pc' = "measured"
    /\ \E rv \in TiltRvecs, mount \in TiltRvecs :
          /\ rvec' = rv
          /\ \E Q \in {Rodrigues(mount)} :
                last' = [op |-> "acceleration",
                         acc |-> Acceleration(ball, Rodrigues(rv)),
                         mount |-> mount,
                         accMounted |->
                             Acceleration([ball EXCEPT !.R0 = MatMul(Q, ball.R0)],
                                          MatMul(Q, Rodrigues(rv)))]
    /\ UNCHANGED <<maze, stack, ball, poseSmooth, tvec, hasPose>>

\* one call Ball::applyDeadzone(v, dz)
DeadzoneCall ==
    /\ pc = "tilt"
    /\ pc' = "shaped"
    /\ \E v \in DeadzoneInputs, dz \in DeadzoneWidths :
          last' = [op |-> "deadzone", v |-> v, dz |-> dz, out |-> ApplyDeadzone(v, dz)]
    /\ UNCHANGED <<maze, stack, ball, pose>>

NextTilt == TiltSetFlatReference \/ TiltAcceleration \/ DeadzoneCall

SpecTilt == InitTilt /\ [][NextTilt]_vars

\* column j of R0 times column i of R, in 1/1000: the entry (j, i) of R0^T * R
ColDot(R0, R, j, i) ==
    Quot(R0[1][j] * R[1][i] + R0[2][j] * R[2][i] + R0[3][j] * R[3][i], One)

\* C13: the acceleration of Ball::update is (-ax*g*gain, -ay*g*gain), where
\* (ax, ay) is the deadzone applied to the x and y components of
\* g_cur = Rrel^T * (0,0,-1) with Rrel = R0^T * R, that is to minus the third
\* axis of the reference in the axes of the current rotation; it is exactly
\* (0,0) when R equals R0.
C13_GravityAlgebra ==
    last.op = "acceleration" =>
        LET R == Rodrigues(rvec)
            gx == -ColDot(ball.R0, R, 3, 1)
            gy == -ColDot(ball.R0, R, 3, 2)
        IN  /\ last.acc[1] = -ApplyDeadzone(gx, ball.deadzone) * ball.g * ball.gain
            /\ last.acc[2] = -ApplyDeadzone(gy, ball.deadzone) * ball.g * ball.gain
            /\ R = ball.R0 => last.acc = <<0, 0>>

\* the board is tilted by 30 degrees about Y from a reference that is itself
\* turned: the ball is pushed along x only
C13_Witness ==
    /\ last.op = "acceleration"
    /\ ball.R0 = Rodrigues(OnAxis(2, 12))
    /\ rvec = OnAxis(2, 18)
    /\ last.acc[1] # 0 /\ last.acc[2] = 0

\* the mounting rotation is made of quarter turns
QuarterTurn(rv) == AngleOf(rv) % (Turn \div 4) = 0

\* C14: the acceleration depends on the relative rotation only: with the
\* reference and the current rotation both multiplied from the left by any
\* rotation Q it is the same, exactly for a Q of quarter turns (whose entries
\* are exact in fixed point) and up to two units of rounding of the gravity
\* direction for any other Q.
C14_MountInvariant ==
    last.op = "acceleration" =>
        /\ QuarterTurn(last.mount) => last.accMounted = last.acc
        /\ \A j \in 1 .. 2 :
              Abs(last.accMounted[j] - last.acc[j]) * (One - ball.deadzone)
                 <= 2 * One * ball.g * ball.gain + (One - ball.deadzone)

\* a camera turned by 30 degrees about Z sees a board that is pushed along x
\* and y, and the push has the direction it has for the unturned camera
C14_Witness ==
    /\ last.op = "acceleration"
    /\ last.mount = OnAxis(3, 6)
    /\ last.acc[1] # 0 /\ last.acc[2] # 0
    /\ Sign(last.accMounted[1]) = Sign(last.acc[1])
    /\ Sign(last.accMounted[2]) = Sign(last.acc[2])
    /\ MatMul(Rodrigues(last.mount), ball.R0) # ball.R0

\* C15: applyDeadzone(v, dz) is 0 for |v| < dz and at |v| = dz, is else
\* sign(v) * (|v| - dz) / (1 - dz) (cut to the unit 1/1000), grows strictly
\* with |v| from dz on, and is sign(v) * 1 at |v| = 1.
C15_DeadzoneShape ==
    last.op = "deadzone" =>
        LET v == last.v
            dz == last.dz
            a == Abs(last.out)
        IN  /\ Abs(v) <= dz => last.out = 0
            /\ Abs(v) >= dz =>
                  /\ a * (One - dz) <= (Abs(v) - dz) * One
                  /\ (a + 1) * (One - dz) > (Abs(v) - dz) * One
                  /\ last.out # 0 => Sign(last.out) = Sign(v)
            /\ (Abs(v) >= dz /\ Abs(v) < One) =>
                  Abs(ApplyDeadzone(IF v < 0 THEN v - 1 ELSE v + 1, dz)) > a
            /\ Abs(v) = One => last.out = Sign(v) * One

\* a negative value just outside the deadzone of the ball gives a small
\* negative output
C15_Witness ==
    /\ last.op = "deadzone"
    /\ last.dz = BallDeadzone
    /\ last.v = -(BallDeadzone + 2)
    /\ last.out = -2

-----------------------------------------------------------------------------
(* The end-to-end scenario: an 8 x 6 maze, a constant tilt, 60 steps *)

\* the value of the k-th call of std::rand() for a seed
Rand(seed, k) == seed + k * (2 * seed + 1)

\* the while loop of Maze::generate run to its end, the k-th call of
\* std::rand() returning Rand(seed, k)
RECURSIVE GenerateLoop(_, _, _, _)
GenerateLoop(m, st, seed, k) ==
    IF st = << >> THEN m
    ELSE LET top == st[Len(st)]
             nb == Neighbors(m, top[1], top[2])
         IN  IF nb # << >>
             THEN LET next == nb[(Rand(seed, k) % Len(nb)) + 1]
                  IN  GenerateLoop(CarveWalls(m, top[1], top[2], next[1], next[2]),
                                   Append(st, next), seed, k + 1)
             ELSE GenerateLoop(m, Pop(st), seed, k)

\* Maze::generate() as a whole
Generate(m, seed) == GenerateLoop(GenerateBegin(m), << <<0, 0>> >>, seed, 0)

ScenarioSeeds == 0 .. 3

\* dt = 1/60 s
ScenarioDt == (500 * DtMin) \div 60

\* a tilt of 30 degrees about Y from a flat reference: g_cur.xy = (0.5, 0)
ScenarioTilt == OnAxis(2, 6)

InitScenario ==
    /\ \E seed \in ScenarioSeeds :
          maze = Generate(MazeCtor(CellsX, CellsY, ScenarioSheetW, ScenarioSheetH), seed)
    /\ stack = << >>
    /\ pc = "scenario"
    /\ ball = SetFlatReference(
                 Reset([BallCtor(ScenarioBallR) EXCEPT !.g = ScenarioG], maze),
                 <<0, 0, 0>>)
    /\ poseSmooth = [PoseSmootherCtor EXCEPT !.alphaPose = AlphaMain]
    /\ rvec = ScenarioTilt
    /\ tvec = Empty
    /\ hasPose = TRUE
    /\ last = [op |-> "start", n |-> 0, from |-> ball.pos]

\* one call ball.update(1/60, rvec, maze) of the scenario
ScenarioStep ==
    /\ pc = "scenario"
    /\ last.n < ScenarioSteps
    /\ ball' = Update(ball, ScenarioDt, rvec, maze)
    /\ last' = [op |-> "step", n |-> last.n + 1, from |-> ball.pos]
    /\ UNCHANGED <<maze, stack, pc, pose>>

NextScenario == ScenarioStep

SpecScenario == InitScenario /\ [][NextScenario]_vars

\* the ball touches the east wall of its cell or the east bound of the maze
AgainstEastWall ==
    \/ At(maze, CellX(ball.pos), CellY(ball.pos)).wE
       /\ ball.pos[1] + ball.radius = CellRight(ball.pos)
    \/ ball.pos[1] = maze.w * maze.cellW - ball.radius

\* C16 as stated: in the end-to-end scenario the ball moves in the +X
\* direction, ends at rest against an internal wall or the maze boundary, and
\* its x never exceeds 8 * cellW - radius.
C16_Claimed ==
    pc = "scenario" =>
        /\ ball.pos[1] <= maze.w * maze.cellW - ball.radius
        /\ ball.pos[1] >= last.from[1]
        /\ last.n = ScenarioSteps =>
              /\ ball.pos[1] > Reset(ball, maze).pos[1]
              /\ ball.pos = last.from
              /\ AgainstEastWall

\* C17: every frame steps the ball with a dt in [1/500, 1/20] s, whatever
\* time was measured since the frame before, none or a long stall included.
C17_DtClamped ==
    [][last'.op = "frame" =>
          /\ last'.dt >= DtMin /\ last'.dt <= DtMax
          /\ (last'.delta >= DtMin /\ last'.delta <= DtMax) => last'.dt = last'.delta
          /\ hasPose' =>
                ball' = Update(ResetKey(LatchOnFirstPose(ball, last'.poseOk, rvec'),
                                        last'.keyR, rvec'),
                               last'.dt, rvec', maze)]_vars

\* after a stall of two seconds the ball has been stepped with 1/20 s and rolls
C17_Witness ==
    /\ last.op = "frame"
    /\ last.delta = 40 * DtMax /\ last.dt = DtMax
    /\ hasPose /\ ball.vel # <<0, 0>> /\ ball.pos # Reset(ball, maze).pos

-----------------------------------------------------------------------------
(* main from its first line: capture, calibration, graphics, maze, loop *)

\* the maze before `Maze maze(cellsX, cellsY, ...)` is reached
NoMaze == [w |-> 0, h |-> 0, cellW |-> 0, cellH |-> 0, grid |-> << >>]

InitMain ==
    /\ maze = NoMaze
    /\ stack = << >>
    /\ pc = "start"
    /\ ball = BallCtor(BallR)
    /\ InitPose
    /\ last = NoOp

\* `return -1` after a message on std::cerr
Fails(op, report) ==
    /\ pc' = "exit"
    /\ last' = [op |-> op, status |-> -1, report |-> report]

\* cv::VideoCapture video(droidcamUrl); if (!video.isOpened()) { .. return -1; }
OpenCapture ==
    /\ pc = "start"
    /\ \E opened \in BOOLEAN :
          IF opened
          THEN pc' = "opened" /\ last' = [op |-> "capture", status |-> 0, report |-> "none"]
          ELSE Fails("capture", "Impossible d'ouvrir DroidCam")
    /\ UNCHANGED <<maze, stack, ball, pose>>

\* if (!video.read(frame) || frame.empty()) { .. return -1; }
ReadFirstFrame ==
    /\ pc = "opened"
    /\ \E read \in BOOLEAN, empty \in BOOLEAN :
          IF read /\ ~empty
          THEN pc' = "framed" /\ last' = [op |-> "first", status |-> 0, report |-> "none"]
          ELSE Fails("first", "Premiere frame vide")
    /\ UNCHANGED <<maze, stack, ball, pose>>

\* LoadCalibration that does not test the distortion coefficients
LoadCalibrationIgnoresD(opened, kEmpty, dEmpty) ==
    IF ~opened THEN FALSE
    ELSE IF kEmpty THEN FALSE
    ELSE TRUE

\* static bool loadCalibration(path, K, D, calibSz)
LoadCalibration(opened, kEmpty, dEmpty) ==
    IF ~opened THEN FALSE
    ELSE IF kEmpty \/ dEmpty THEN FALSE
    ELSE TRUE

\* if (!loadCalibration("camera.yaml", K, D, calibSz)) { .. return -1; }
Calibrate ==
    /\ pc = "framed"
    /\ \E opened \in BOOLEAN, kEmpty \in BOOLEAN, dEmpty \in BOOLEAN :
          IF LoadCalibration(opened, kEmpty, dEmpty)
          THEN /\ pc' = "calibrated"
               /\ last' = [op |-> "calibration", status |-> 0, report |-> "none",
                           opened |-> opened, kEmpty |-> kEmpty, dEmpty |-> dEmpty]
          ELSE /\ pc' = "exit"
               /\ last' = [op |-> "calibration", status |-> -1,
                           report |-> "camera.yaml introuvable ou invalide",
                           opened |-> opened, kEmpty |-> kEmpty, dEmpty |-> dEmpty]
    /\ UNCHANGED <<maze, stack, ball, pose>>

\* glfwInit, glfwCreateWindow, glewInit, the shaders and the background
\* texture, each failure with its message and return -1
InitGraphics ==
    /\ pc = "calibrated"
    /\ \E failure \in {"none", "glfwInit failed", "glfwCreateWindow failed",
                       "glewInit failed", "Fond JPG introuvable"} :
          IF failure = "none"
          THEN pc' = "graphics" /\ last' = [op |-> "graphics", status |-> 0, report |-> "none"]
          ELSE Fails("graphics", failure)
    /\ UNCHANGED <<maze, stack, ball, pose>>

\* Maze maze(cellsX, cellsY, sheetW, sheetH, wallT); maze.generate(); entered
BuildMaze ==
    /\ pc = "graphics"
    /\ \E s \in LoopSizes :
          maze' = GenerateBegin(MazeCtor(s[1], s[2],
                                         Quot(SheetW * s[1], CellsX),
                                         Quot(SheetH * s[2], CellsY)))
    /\ stack' = << <<0, 0>> >>
    /\ pc' = "generate"
    /\ last' = [op |-> "maze"]
    /\ UNCHANGED <<ball, pose>>

NextMain ==
    \/ OpenCapture
    \/ ReadFirstFrame
    \/ Calibrate
    \/ InitGraphics
    \/ BuildMaze
    \/ GenerateCarve
    \/ GeneratePop
    \/ GenerateReturn
    \/ BallReset
    \/ Frame
    \/ FrameReadFails
    \/ WindowClose

SpecMain == InitMain /\ [][NextMain]_vars

\* nothing of the game has run: no maze, the smoother, the held pose and the
\* ball as constructed
NothingRan ==
    /\ maze = NoMaze
    /\ poseSmooth = [PoseSmootherCtor EXCEPT !.alphaPose = AlphaMain]
    /\ rvec = Empty /\ tvec = Empty /\ ~hasPose
    /\ ball = BallCtor(BallR)

\* the program has ended with a message and a failure status
ReportedFailure == pc = "exit" /\ last.status # 0 /\ last.report # "none"

\* C18: if the calibration file cannot be opened, or camera_matrix or
\* distortion_coefficients is empty, the program reports it and ends with a
\* failure status before the loop: no maze, no smoothing, no physics step,
\* and nothing runs afterwards.
C18_CalibrationFatal ==
    /\ [](last.op = "calibration" =>
             IF ~last.opened \/ last.kEmpty \/ last.dEmpty
             THEN ReportedFailure /\ NothingRan
             ELSE pc = "calibrated")
    /\ [][pc = "exit" => pc' = "exit" /\ maze' = maze /\ ball' = ball
                         /\ poseSmooth' = poseSmooth]_vars

\* the file was opened and held a camera matrix but no distortion
\* coefficients, and the program has ended
C18_Witness ==
    /\ last.op = "calibration"
    /\ last.opened /\ ~last.kEmpty /\ last.dEmpty
    /\ ReportedFailure /\ NothingRan

\* C19 as stated: a stream that cannot be opened and an empty first frame are
\* reported and end the program before the loop, and a failed read inside the
\* loop is reported and ends the session in that iteration.
C19_Claimed ==
    /\ (pc = "exit" /\ last.op \in {"capture", "first"}) =>
           ReportedFailure /\ NothingRan
    /\ last.op = "break" => pc = "exit" /\ last.report # "none"

-----------------------------------------------------------------------------
(* Termination of Maze::generate *)

\* the while loop keeps running as long as it can take a step
SpecMazeFair == InitMaze /\ [][NextMaze]_vars /\ WF_vars(NextMaze)

AllVisited == \A i \in DOMAIN maze.grid : maze.grid[i].visited

\* C20: Maze::generate terminates on every grid and for every sequence of
\* random choices: the stack becomes empty and generate returns, and whenever
\* the stack is empty every cell is visited.
C20_GenerateTerminates ==
    /\ <>(pc = "generated" /\ stack = << >>)
    /\ [](stack = << >> => AllVisited)

\* generate has returned on the largest grid
C20_Witness ==
    /\ pc = "generated" /\ stack = << >>
    /\ maze.w = MaxW /\ maze.h = MaxH
    /\ AllVisited

-----------------------------------------------------------------------------
(* Two seeded runs of Maze::generate *)

\* std::srand(seed): the state of the generator becomes the seed
Srand(rng, seed) == seed

\* values of std::time(0) and seeds a caller may hand to std::srand
ClockTimes == 0 .. 3
CallerSeeds == {0, 2}

InitSeed ==
    /\ \E width \in 1 .. MaxW, height \in 1 .. MaxH :
          maze = MazeCtor(width, height, Quot(SheetW * width, CellsX),
                          Quot(SheetH * height, CellsY))
    /\ stack = << >>
    /\ pc = "seed"
    /\ ball = BallCtor(BallR)
    /\ InitPose
    /\ last = [op |-> "start", time |-> 0]

\* a caller seeds the generator with std::srand(seed), builds a maze of the
\* same size and calls generate(), which seeds the generator again with
\* std::time(0) and carves with the values std::rand() then returns
SeededRun(from, to) ==
    /\ pc = from
    /\ pc' = to
    /\ \E seed \in CallerSeeds, time \in {t \in ClockTimes : t >= last.time} :
          /\ maze' = Generate(MazeCtor(maze.w, maze.h, maze.w * maze.cellW,
                                       maze.h * maze.cellH),
                              Srand(Srand(0, seed), time))
          /\ last' = [op |-> "generate", seed |-> seed, time |-> time,
                      before |-> IF from = "seed" THEN [seed |-> seed, grid |-> << >>]
                                 ELSE [seed |-> last.seed, grid |-> maze.grid]]
    /\ UNCHANGED <<stack, ball, pose>>

FirstRun == SeededRun("seed", "first")

SecondRun == SeededRun("first", "second")

NextSeed == FirstRun \/ SecondRun

SpecSeed == InitSeed /\ [][NextSeed]_vars

\* C21 as stated: two runs of generate on grids of the same size with the
\* same caller-chosen seed produce the same wall flags in every cell.
C21_Claimed ==
    (pc = "second" /\ last.seed = last.before.seed) => maze.grid = last.before.grid

-----------------------------------------------------------------------------
(* Two successive calls of smooth on rotations of up to a full turn *)

\* raw rotations handed to smooth: multiples of 30 degrees about X or Y, up
\* to a full turn either way, so that a and a +- 360 degrees are both fed
TurnAngles == {6 * n : n \in -12 .. 12}
TurnRvecs == {OnAxis(axis, a) : axis \in 1 .. 2, a \in TurnAngles}

InitTurn == InitSmooth

\* the first call poseSmooth.smooth(rvec, tvec) of a run
FirstSmooth ==
    /\ pc = "smooth"
    /\ ~poseSmooth.hasPose
    /\ \E rv \in TurnRvecs, tv \in {<<0, 0, 4>>} :
          /\ \E u \in {Smooth(poseSmooth, rv, tv)} :
                /\ poseSmooth' = u.ps
                /\ rvec' = u.rvec
                /\ tvec' = u.tvec
          /\ last' = [op |-> "smooth", rawR |-> rv, rawT |-> tv,
                      was |-> FALSE, prev |-> Empty]
    /\ UNCHANGED <<maze, stack, pc, ball, hasPose>>

\* the call of the next frame
SecondSmooth ==
    /\ pc = "smooth"
    /\ poseSmooth.hasPose
    /\ pc' = "smoothed"
    /\ \E rv \in TurnRvecs, tv \in {<<0, 0, 4>>} :
          /\ SameAxis(rv, poseSmooth.rPrev)
          /\ \E u \in {Smooth(poseSmooth, rv, tv)} :
                /\ poseSmooth' = u.ps
                /\ rvec' = u.rvec
                /\ tvec' = u.tvec
          /\ last' = [op |-> "smooth", rawR |-> rv, rawT |-> tv,
                      was |-> TRUE, prev |-> poseSmooth.rPrev]
    /\ UNCHANGED <<maze, stack, ball, hasPose>>

NextTurn == FirstSmooth \/ SecondSmooth

SpecTurn == InitTurn /\ [][NextTurn]_vars

\* the angle between two rotations about one axis, in 0 .. 180 degrees
AngularDistance(r1, r2) == Abs(NormAngle(AngleOf(r1) - AngleOf(r2)))

-----------------------------------------------------------------------------
(* Ball::update against the reference step *)

\* one axis of the reference step: the damped velocity, the tentative
\* position, the wall of the cell [lo, hi] that is crossed if any, and the
\* clamp to [r, max], as <<position, velocity>>
ReferenceAxis(p, v, a, dt, r, wLo, wHi, lo, hi, max) ==
    LET v1 == Quot((v + Quot(a * dt, AccDen)) * FrictionPct, 100)
        t == p + Quot(v1 * dt, PosDen)
        hitLo == wLo /\ t - r < lo
        hitHi == ~hitLo /\ wHi /\ t + r > hi
        p1 == IF hitLo THEN lo + r ELSE IF hitHi THEN hi - r ELSE t
        v2 == IF hitLo \/ hitHi THEN Quot(-v1 * BouncePct, 100) ELSE v1
        p2 == IF p1 < r THEN r ELSE p1
        p3 == IF p2 > max THEN max ELSE p2
    IN  <<p3, v2>>

\* the reference step on both axes, the cell taken at the position before
\* the step: <<position, velocity>>
ReferenceStep(b, acc, dt, m) ==
    LET gx == Quot(b.pos[1], m.cellW)
        gy == Quot(b.pos[2], m.cellH)
        cell == At(m, gx, gy)
        x == ReferenceAxis(b.pos[1], b.vel[1], acc[1], dt, b.radius, cell.wW, cell.wE,
                           gx * m.cellW, (gx + 1) * m.cellW, m.w * m.cellW - b.radius)
        y == ReferenceAxis(b.pos[2], b.vel[2], acc[2], dt, b.radius, cell.wN, cell.wS,
                           gy * m.cellH, (gy + 1) * m.cellH, m.h * m.cellH - b.radius)
    IN  <<<<x[1], y[1]>>, <<x[2], y[2]>>>>

\* C23: from every position and velocity the ball reaches, and for every dt
\* and pose, Ball::update gives the position and velocity of the reference
\* step: damped velocity, tentative position from it, walls of the cell of
\* the position before the step, bounce of -0.4 on the axis of the wall
\* only, and a final clamp to the maze bounds that leaves the velocity alone.
C23_ReferenceStep ==
    pc = "play" =>
        \A dt \in DtChoices, rv \in Tilts :
            \E u \in {UpdateSteps(ball, dt, rv, maze)} :
                <<u.ball.pos, u.ball.vel>> = ReferenceStep(ball, u.acc, dt, maze)

\* an update bounced the ball off a wall on the X axis while it moved freely
\* on the Y axis into another cell, keeping its damped Y velocity
C23_Witness ==
    /\ Updated
    /\ last.wall = <<TRUE, FALSE>> /\ last.bound = <<FALSE, FALSE>>
    /\ ball.vel[1] # 0 /\ ball.vel[2] # 0
    /\ CellY(ball.pos) > 0

-----------------------------------------------------------------------------
(* The order of the steps of a loop iteration *)

LoopOrder == <<"read", "detect", "smooth", "latch", "key", "update", "draw">>

PlaceInLoop(step) == CHOOSE i \in DOMAIN LoopOrder : LoopOrder[i] = step

\* C24: the steps of every loop iteration run in the order read frame,
\* detect, smooth pose, latch flat reference, handle reset key, physics step,
\* draw ball, each at most once; the ball an iteration leaves is the ball it
\* found after the latch, the reset key and one physics step in that order, or
\* the ball it found when no pose is held; and the ball is drawn at the
\* position that physics step produced.
C24_LoopOrder ==
    [][FrameStep =>
          /\ \A i, j \in DOMAIN last'.steps :
                i < j => PlaceInLoop(last'.steps[i]) < PlaceInLoop(last'.steps[j])
          /\ \A i \in DOMAIN last'.steps : last'.steps[i] \in {LoopOrder[k] : k \in DOMAIN LoopOrder}
          /\ hasPose' <=> (\E i \in DOMAIN last'.steps : last'.steps[i] = "update")
          /\ hasPose' <=> (\E i \in DOMAIN last'.steps : last'.steps[i] = "draw")
          /\ hasPose' =>
                /\ ball' = Update(ResetKey(LatchOnFirstPose(ball, last'.poseOk, rvec'),
                                           last'.keyR, rvec'),
                                  last'.dt, rvec', maze)
                /\ last'.ballDrawn = ball'.pos
          /\ ~hasPose' => (ball' = ball /\ last'.ballDrawn = Empty)]_vars

\* an iteration read a frame, detected and smoothed a pose, stepped the
\* rolling ball once and drew it where that step had put it
C24_Witness ==
    /\ last.op = "frame"
    /\ last.steps = <<"read", "detect", "smooth", "update", "draw">>
    /\ last.ballDrawn = ball.pos
    /\ ball.vel # <<0, 0>>
    /\ ball.pos # Reset(ball, maze).pos

-----------------------------------------------------------------------------
(* The wall mesh of createMazeWallsSolidFromMaze *)

\* A wall box is named by the cell edge it lies along: <<"V", x, y>> is the
\* edge at x * cellW between the rows y and y + 1 (the west side of cell
\* (x, y), the east side of cell (x - 1, y)), <<"H", x, y>> the edge at
\* y * cellH (the north side of cell (x, y), the south side of cell (x, y - 1)).

\* the four boxes of the outer border, which run along every edge of the
\* perimeter
BorderBoxes(m) ==
    {<<"H", x, y>> : x \in 0 .. m.w - 1, y \in {0, m.h}}
        \cup {<<"V", x, y>> : x \in {0, m.w}, y \in 0 .. m.h - 1}

\* CellBoxes without the box of the west wall
CellBoxesNoWest(m, gx, gy) ==
    LET c == At(m, gx, gy)
    IN  (IF c.wN THEN {<<"H", gx, gy>>} ELSE {})
            \cup (IF gx = m.w - 1 /\ c.wE THEN {<<"V", gx + 1, gy>>} ELSE {})
            \cup (IF gy = m.h - 1 /\ c.wS THEN {<<"H", gx, gy + 1>>} ELSE {})

\* the body of the loops over gy and gx: the boxes appended for one cell
CellBoxes(m, gx, gy) ==
    LET c == At(m, gx, gy)
    IN  (IF c.wN THEN {<<"H", gx, gy>>} ELSE {})
            \cup (IF c.wW THEN {<<"V", gx, gy>>} ELSE {})
            \cup (IF gx = m.w - 1 /\ c.wE THEN {<<"V", gx + 1, gy>>} ELSE {})
            \cup (IF gy = m.h - 1 /\ c.wS THEN {<<"H", gx, gy + 1>>} ELSE {})

\* createMazeWallsSolidFromMaze(maze, wallH): the edges that carry a box
CreateMazeWallsSolidFromMaze(m) ==
    BorderBoxes(m)
        \cup UNION {CellBoxes(m, gx, gy) : gx \in 0 .. m.w - 1, gy \in 0 .. m.h - 1}

\* main.cpp: Mesh mazeSolid = createMazeWallsSolidFromMaze(maze, wallH);
BuildMesh ==
    /\ pc = "generated"
    /\ pc' = "meshed"
    /\ last' = [op |-> "mesh", boxes |-> CreateMazeWallsSolidFromMaze(maze)]
    /\ UNCHANGED <<maze, stack, ball, pose>>

NextMesh == GenerateCarve \/ GeneratePop \/ GenerateReturn \/ BuildMesh

SpecMesh == InitMaze /\ [][NextMesh]_vars

\* the wall flag Ball::update tests on a side of cell c, and the edge on
\* that side
Sides == {"W", "E", "N", "S"}

CollisionFlag(c, side) ==
    LET cell == At(maze, c[1], c[2])
    IN  IF side = "W" THEN cell.wW ELSE IF side = "E" THEN cell.wE
        ELSE IF side = "N" THEN cell.wN ELSE cell.wS

SideEdge(c, side) ==
    IF side = "W" THEN <<"V", c[1], c[2]>>
    ELSE IF side = "E" THEN <<"V", c[1] + 1, c[2]>>
    ELSE IF side = "N" THEN <<"H", c[1], c[2]>>
    ELSE <<"H", c[1], c[2] + 1>>

\* C25: for every generated maze, every cell and every side of it, the mesh
\* of createMazeWallsSolidFromMaze has a wall box along that side if and only
\* if the wall flag Ball::update tests for that side is set.
C25_MeshIsCollisionGrid ==
    pc = "meshed" =>
        \A c \in Cells(maze), side \in Sides :
            (SideEdge(c, side) \in last.boxes) <=> CollisionFlag(c, side)

\* the mesh of a maze of the largest size is built; it has a box along an
\* inner east side and along an inner south side, which the mesh takes from
\* the neighbour's W and N flags, and none along a cleared inner east side
C25_Witness ==
    /\ pc = "meshed" /\ last.op = "mesh"
    /\ maze.w = MaxW /\ maze.h = MaxH
    /\ \E c \in Cells(maze) :
          /\ c[1] < maze.w - 1 /\ At(maze, c[1], c[2]).wE
          /\ SideEdge(c, "E") \in last.boxes
    /\ \E c \in Cells(maze) :
          /\ c[2] < maze.h - 1 /\ At(maze, c[1], c[2]).wS
          /\ SideEdge(c, "S") \in last.boxes
    /\ \E c \in Cells(maze) :
          /\ c[1] < maze.w - 1 /\ ~At(maze, c[1], c[2]).wE
          /\ SideEdge(c, "E") \notin last.boxes

-----------------------------------------------------------------------------
(* Invariants of the wall flags *)

\* C26: at every step of Maze::generate and after it, for horizontally
\* adjacent cells A (west) and B (east) A.wE = B.wW, and for vertically
\* adjacent cells A (y) and B (y + 1) A.wS = B.wN.
C26_WallsSymmetric ==
    /\ \A c \in Cells(maze) :
          c[1] + 1 < maze.w => At(maze, c[1], c[2]).wE = At(maze, c[1] + 1, c[2]).wW
    /\ \A c \in Cells(maze) :
          c[2] + 1 < maze.h => At(maze, c[1], c[2]).wS = At(maze, c[1], c[2] + 1).wN

\* generate is in its loop on the largest grid and has carved a passage to
\* the east, one to the south, one to the west and one to the north
C26_Witness ==
    /\ pc = "generate" /\ stack # << >>
    /\ maze.w = MaxW /\ maze.h = MaxH
    /\ \E c \in Cells(maze) :
          c[1] + 1 < maze.w /\ ~At(maze, c[1], c[2]).wE /\ ~At(maze, c[1] + 1, c[2]).wW
    /\ \E c \in Cells(maze) :
          c[2] + 1 < maze.h /\ ~At(maze, c[1], c[2]).wS /\ ~At(maze, c[1], c[2] + 1).wN
    /\ \E i \in 1 .. Len(stack) - 1 : stack[i + 1][1] < stack[i][1]
    /\ \E i \in 1 .. Len(stack) - 1 : stack[i + 1][2] < stack[i][2]

\* C27: Maze::generate never clears an outer wall: at every step and after
\* generation every cell with x = 0 has wW set, every cell with x = w - 1 has
\* wE set, every cell with y = 0 has wN set and every cell with y = h - 1 has
\* wS set.
C27_OuterWallsKept ==
    \A c \in Cells(maze) :
        /\ c[1] = 0 => At(maze, c[1], c[2]).wW
        /\ c[1] = maze.w - 1 => At(maze, c[1], c[2]).wE
        /\ c[2] = 0 => At(maze, c[1], c[2]).wN
        /\ c[2] = maze.h - 1 => At(maze, c[1], c[2]).wS

\* generate has returned on the largest grid: every cell of the perimeter
\* has lost an inner wall and kept its outer ones
C27_Witness ==
    /\ pc = "generated" /\ stack = << >>
    /\ maze.w = MaxW /\ maze.h = MaxH
    /\ \A c \in Cells(maze) :
          (c[1] \in {0, maze.w - 1} \/ c[2] \in {0, maze.h - 1}) =>
              LET cell == At(maze, c[1], c[2])
              IN  ~(cell.wN /\ cell.wS /\ cell.wE /\ cell.wW)
    /\ At(maze, 0, 0).wW /\ At(maze, 0, 0).wN
    /\ At(maze, maze.w - 1, maze.h - 1).wE /\ At(maze, maze.w - 1, maze.h - 1).wS

-----------------------------------------------------------------------------
(* The three pose flags of the loop *)

\* C28: main's hasPose, PoseSmoother::hasPose and Ball::hasFlatRef are equal
\* at the end of every loop iteration; none of them returns to false; a frame
\* sets them exactly when its detection succeeds; and whenever a frame calls
\* Ball::update, main's own latch has already set the flat reference, so that
\* the latch inside update does not fire.
C28_FlagsAgree ==
    /\ [](hasPose = poseSmooth.hasPose /\ hasPose = ball.hasFlatRef)
    /\ [][/\ hasPose => hasPose'
          /\ poseSmooth.hasPose => poseSmooth'.hasPose
          /\ ball.hasFlatRef => ball'.hasFlatRef]_vars
    /\ [][FrameStep =>
            /\ hasPose' = (hasPose \/ last'.poseOk)
            /\ hasPose' => LatchOnFirstPose(ball, last'.poseOk, rvec').hasFlatRef]_vars

\* the iteration of the first successful detection has set the three flags
\* and has stepped the ball
C28_Witness ==
    /\ last.op = "frame" /\ last.first /\ ~last.keyR
    /\ hasPose /\ poseSmooth.hasPose /\ ball.hasFlatRef
    /\ \E i \in DOMAIN last.steps : last.steps[i] = "update"

\* C29: an iteration that ends without a pose, that is every iteration
\* before the first successful detection, leaves the position, the velocity,
\* R0 and hasFlatRef of the ball unchanged, with or without the reset key: it
\* runs neither the reset key block nor a physics step, and the ball is still
\* as Ball::reset left it.
C29_NothingBeforeFirstPose ==
    /\ [][(FrameStep /\ ~hasPose') =>
            /\ ball'.pos = ball.pos /\ ball'.vel = ball.vel
            /\ ball'.R0 = ball.R0 /\ ball'.hasFlatRef = ball.hasFlatRef
            /\ \A i \in DOMAIN last'.steps : last'.steps[i] \notin {"key", "update", "draw"}]_vars
    /\ []((pc = "play" /\ ~hasPose) => ball = Reset(BallCtor(BallR), maze))

\* a frame in which markers but too few corners were found and the reset key
\* was down has passed before any pose was detected
C29_Witness ==
    /\ pc = "play" /\ last.op = "frame"
    /\ last.keyR /\ last.detect = "corners" /\ ~hasPose
    /\ last.steps = <<"read", "detect">>
    /\ ball = Reset(BallCtor(BallR), maze)

-----------------------------------------------------------------------------
(* The velocity of the ball under any sequence of updates and resets *)

\* g = 9.81 (Ball.hpp) for velocities in units of 1 cm/s
SpeedG == 10 * BallG

\* poses of the board: tilts of up to 90 degrees about X or Y
SpeedTilts == {OnAxis(axis, 6 * n) : axis \in 1 .. 2, n \in -3 .. 3}

InitSpeed ==
    /\ maze = MazeCtor(1, 1, SheetW, SheetH)
    /\ stack = << >>
    /\ pc = "speed"
    /\ ball = SetFlatReference(Reset([BallCtor(BallR) EXCEPT !.g = SpeedG], maze),
                               <<0, 0, 0>>)
    /\ InitPose
    /\ last = NoOp

\* the velocity part of one call ball.update(dt, rvec, maze): the
\* acceleration of the pose, the integration with friction, and on each axis
\* the wall branch taken or not, whatever the position and the maze are
SpeedUpdate ==
    /\ pc = "speed"
    /\ \E dt \in DtChoices, rv \in SpeedTilts, wallX \in BOOLEAN, wallY \in BOOLEAN :
          /\ SameAxis(rv, IF rvec = Empty THEN <<0, 0, 0>> ELSE rvec)
          /\ rvec' = IF AxisOf(rv) # 0 \/ rvec = Empty THEN rv ELSE rvec
          /\ \E acc \in {Acceleration(ball, Rodrigues(rv))} :
             \E vx \in {Integrate(ball.vel[1], acc[1], dt)},
                vy \in {Integrate(ball.vel[2], acc[2], dt)} :
                /\ ball' = [ball EXCEPT !.vel =
                               <<Collide(wallX, FALSE, 0, vx, ball.radius, 0, maze.cellW)[2],
                                 Collide(wallY, FALSE, 0, vy, ball.radius, 0, maze.cellH)[2]>>]
                /\ last' = [op |-> "update", wall |-> <<wallX, wallY>>]
    /\ UNCHANGED <<maze, stack, pc, poseSmooth, tvec, hasPose>>

\* ball.reset(maze), or the velocity part of the reset key
SpeedReset ==
    /\ pc = "speed"
    /\ ball' = Reset(ball, maze)
    /\ last' = [op |-> "reset"]
    /\ UNCHANGED <<maze, stack, pc, pose>>

NextSpeed == SpeedUpdate \/ SpeedReset

SpecSpeed == InitSpeed /\ [][NextSpeed]_vars

\* |v| <= (0.85 / 0.15) * g * gain * (1/20), in the units of the velocity
WithinSpeedBound(v) ==
    (100 - FrictionPct) * 100 * Abs(v)
        <= FrictionPct * Quot(One * ball.g * ball.gain * DtMax, AccDen \div 100)

\* C30: starting from zero velocity, after any sequence of updates with dt
\* in [1/500, 1/20] s and of resets, each component of the velocity is at most
\* (0.85 / 0.15) * g * gain * (1/20) in magnitude.
C30_SpeedBounded ==
    pc = "speed" => (WithinSpeedBound(ball.vel[1]) /\ WithinSpeedBound(ball.vel[2]))

\* updates under a tilt of 90 degrees have brought the X velocity to within
\* three percent of the bound
C30_Witness ==
    /\ pc = "speed" /\ last.op = "update"
    /\ WithinSpeedBound(ball.vel[1])
    /\ ~WithinSpeedBound(ball.vel[1] + Quot(3 * ball.vel[1], 100))
    /\ ball.vel[1] # 0

====
